---- MODULE Spec2Model ----
(***************************************************************************)
(* Path-based bounded model checking engine (lib/seahorn/PathBasedBmc.cc). *)
(*                                                                         *)
(* Five specifications share this module:                                  *)
(*   SpecBA   the Boolean abstraction (pre_nnf, nnf, BA) applied to a      *)
(*            bounded family of formula sequences;                         *)
(*   SpecMuc  the naive and the binary-search minimal-unsat-core           *)
(*            procedures applied to a bounded family of clause lists;      *)
(*   Spec     the enumeration loop of PathBasedBmcEngine::solve with its   *)
(*            two refiners and add_blocking_clauses;                       *)
(*   FairSpec Spec with every solver and refiner call returning;           *)
(*   SpecCE   isCriticalEdge applied to the block pairs of small CFGs.     *)
(***************************************************************************)
EXTENDS Integers, Sequences, FiniteSets, TLC

VARIABLES
  \* ---- Boolean abstraction (SpecBA)
  ba_side,        \* the input sequence `side`
  ba_abs,         \* the output sequence `abs_side`
  ba_again,       \* bool_abstraction(Expr) of each clause of abs_side
  ba_pc,          \* "input" | "done" | "again" | "aborted"
  ndebug,         \* TRUE iff the build defines NDEBUG (assert is a no-op)
  \* ---- minimal unsat cores (SpecMuc)
  muc_f,          \* the clause list f handed to run
  muc_assumptions,\* the assumption list of naive_muc::run
  muc_out,        \* the core written by the run
  muc_solver,     \* the assertions held by m_solver after the run
  muc_calls,      \* m_num_solver_calls
  muc_queries,    \* per m_solver.solve(): the solver's content and check's arguments
  muc_pc,         \* "input" | "naive" | "binary"
  \* ---- the engine (Spec)
  vc,             \* the program under analysis: an entry of the catalogue
  UseCrab,        \* horn-bmc-crab, in a build with HAVE_CRAB_LLVM
  pc,             \* position in solve(): "init" | "loop" | "ai" | "smt" |
                  \*   "returned" | "aborted"
  m_side,         \* the precise encoding
  m_smt_solver,   \* primary solver P: the asserted expressions, in order
  m_aux_smt_solver, \* auxiliary solver Q: the asserted expressions, in order
  m_blocking_clauses, \* B
  m_active_bool_lits,
  m_result,
  m_model,        \* the cached precise model
  iters,          \* the local counter of solve()
  model,          \* the abstract model of the current iteration
  ret,            \* the value the last solve() returned, "none" before
  note,           \* the run printed "Program is trivially unsat"
  runs,           \* the number of solve() calls started
  p_res,          \* the answer of the last P.solve() of the run, "none" before
  q_res,          \* the answer of Q.solve() in the current iteration, or "none"
  q_model,        \* the model Q produced in the current iteration
  ai_res,         \* the AI refiner's answer in the current iteration, or "none"
  bc,             \* the blocking clause built in the current iteration
  ai_stmts,       \* relevant_stmts of the AI refiner in the current iteration
  active_bool_lits, \* the refiner's local set when it left its loop
  \* ---- isCriticalEdge (SpecCE)
  ce_succs,       \* the CFG: the pairs (block, successor)
  ce_src,         \* the argument src
  ce_dst,         \* the argument dst
  ce_res,         \* the value returned
  ce_pc           \* "input" | "done"

baVars == <<ba_side, ba_abs, ba_again, ba_pc>>
mucVars == <<muc_f, muc_assumptions, muc_out, muc_solver, muc_calls, muc_queries, muc_pc>>
engVars ==
  <<vc, UseCrab, pc, m_side, m_smt_solver, m_aux_smt_solver, m_blocking_clauses,
    m_active_bool_lits, m_result, m_model, iters, model, ret, note, runs,
    p_res, q_res, q_model, ai_res, bc, ai_stmts, active_bool_lits>>
ceVars == <<ce_succs, ce_src, ce_dst, ce_res, ce_pc>>
vars == <<baVars, mucVars, engVars, ceVars, ndebug>>

(***************************************************************************)
(* Expression kernel.  An Expr is a record [op, name, args]; hash-consing  *)
(* makes structural equality the identity of the code's Expr handles.      *)
(***************************************************************************)
Leaf(op, name) == [op |-> op, name |-> name, args |-> <<>>]
Node(op, args) == [op |-> op, name |-> "", args |-> args]

trueE == Leaf("TRUE", "")
falseE == Leaf("FALSE", "")
boolConst(n) == Leaf("BCONST", n)
intVar(n) == Leaf("IVAR", n)
intNum(n) == Leaf("INUM", n)
\* bind::boolConst(mk<TUPLE>(src,dst)): a Boolean constant named by a pair
tupleConst(src, dst) == Node("BTUPLE", <<src, dst>>)

isOpX(op, e) == e.op = op
left(e) == e.args[1]
right(e) == e.args[2]

\* isOp<BoolOp>: the operators of the Boolean signature
BoolOps == {"TRUE", "FALSE", "AND", "OR", "NEG", "IMPL", "ITE", "IFF", "XOR"}
isBoolOp(e) == e.op \in BoolOps

isTuple(e) == isOpX("BTUPLE", e)
getTuple(e) == <<e.args[1], e.args[2]>>

\* bind::isBoolConst
isBoolConst(e) == e.op \in {"BCONST", "BTUPLE"}

mkNeg(a) == Node("NEG", <<a>>)
mkAnd(a, b) == Node("AND", <<a, b>>)
mkOr(a, b) == Node("OR", <<a, b>>)
mkImpl(a, b) == Node("IMPL", <<a, b>>)
mkIff(a, b) == Node("IFF", <<a, b>>)
mkXor(a, b) == Node("XOR", <<a, b>>)
mkEq(a, b) == Node("EQ", <<a, b>>)
mkIte(c, a, b) == Node("ITE", <<c, a, b>>)

\* op::boolop::lneg / land / lor: constructors with trivial simplification
lneg(e) ==
  IF isOpX("TRUE", e) THEN falseE
  ELSE IF isOpX("FALSE", e) THEN trueE
  ELSE IF isOpX("NEG", e) THEN left(e)
  ELSE mkNeg(e)

land2(a, b) ==
  IF a = b THEN a
  ELSE IF isOpX("TRUE", a) THEN b
  ELSE IF isOpX("TRUE", b) THEN a
  ELSE IF isOpX("FALSE", a) \/ isOpX("FALSE", b) THEN falseE
  ELSE mkAnd(a, b)

lor2(a, b) ==
  IF isOpX("FALSE", a) THEN b
  ELSE IF isOpX("FALSE", b) THEN a
  ELSE IF isOpX("TRUE", a) \/ isOpX("TRUE", b) THEN trueE
  ELSE IF a = b THEN a
  ELSE mkOr(a, b)

\* op::boolop::land over a range
land(v) ==
  IF Len(v) = 0 THEN trueE
  ELSE IF Len(v) = 1 THEN v[1]
  ELSE IF Len(v) = 2 THEN land2(v[1], v[2])
  ELSE Node("AND", v)

(***************************************************************************)
(* Semantics of expressions.  M is the set of Boolean constants that are   *)
(* true, th the value of every integer variable.                           *)
(***************************************************************************)
IntVars == {"x", "y"}
IntDom == {1, 2}
NumVal(n) == IF n = "1" THEN 1 ELSE 2
Theories == [IntVars -> IntDom]

RECURSIVE Val(_, _, _)
Val(e, M, th) ==
  CASE e.op = "TRUE" -> TRUE
    [] e.op = "FALSE" -> FALSE
    [] e.op \in {"BCONST", "BTUPLE"} -> e \in M
    [] e.op = "IVAR" -> th[e.name]
    [] e.op = "INUM" -> NumVal(e.name)
    [] e.op = "NEG" -> ~Val(e.args[1], M, th)
    [] e.op = "AND" -> \A i \in DOMAIN e.args : Val(e.args[i], M, th)
    [] e.op = "OR" -> \E i \in DOMAIN e.args : Val(e.args[i], M, th)
    [] e.op = "IMPL" -> (Val(e.args[1], M, th) => Val(e.args[2], M, th))
    [] e.op = "IFF" -> (Val(e.args[1], M, th) = Val(e.args[2], M, th))
    [] e.op = "XOR" -> (Val(e.args[1], M, th) # Val(e.args[2], M, th))
    [] e.op = "ITE" -> IF Val(e.args[1], M, th) THEN Val(e.args[2], M, th)
                       ELSE Val(e.args[3], M, th)
    [] e.op = "EQ" -> (Val(e.args[1], M, th) = Val(e.args[2], M, th))

\* every clause of a sequence of formulas holds
SatSeq(f, M, th) == \A i \in DOMAIN f : Val(f[i], M, th)

(***************************************************************************)
(* PreNNF, pre_nnf: remove all Boolean operators except AND/OR/NEG.        *)
(***************************************************************************)
\* PreNNF::operator(): the rewrite of one node, its children already rewritten.
\* XOR: assert(false) aborts a checked build; an NDEBUG build returns exp.
PreNNF(exp) ==
  IF ~isBoolOp(exp) THEN exp
  ELSE IF ~(exp.op \in {"IMPL", "ITE", "IFF", "XOR"}) THEN exp
  ELSE IF isOpX("XOR", exp) THEN exp
  ELSE IF isOpX("IMPL", exp) THEN lor2(lneg(left(exp)), right(exp))
  ELSE IF isOpX("ITE", exp) THEN
    lor2(land2(exp.args[1], exp.args[2]), land2(lneg(exp.args[1]), exp.args[3]))
  ELSE land2(lor2(lneg(left(exp)), right(exp)), lor2(lneg(right(exp)), left(exp)))

\* the assert of PreNNF::operator() fires on this node
PreNNFAsserts(exp) == isBoolOp(exp) /\ isOpX("XOR", exp)

\* pre_nnf: dagVisit with op::boolop::BS<PreNNF>: bottom-up over the Boolean
\* operators; the visitor does not descend into non-Boolean operators.
RECURSIVE pre_nnf(_)
pre_nnf(exp) ==
  IF isBoolOp(exp)
  THEN PreNNF(Node(exp.op, [i \in DOMAIN exp.args |-> pre_nnf(exp.args[i])]))
  ELSE exp

\* some Boolean node reached by pre_nnf trips the assert
RECURSIVE pre_nnf_asserts(_)
pre_nnf_asserts(exp) ==
  /\ isBoolOp(exp)
  /\ \/ PreNNFAsserts(exp)
     \/ \E i \in DOMAIN exp.args : pre_nnf_asserts(exp.args[i])

\* op::boolop::nnf: push negations through AND/OR/NEG (the only Boolean
\* operators left after pre_nnf); a negation of anything else stays.
RECURSIVE nnf(_)
nnf(exp) ==
  IF isOpX("NEG", exp) THEN
    LET a == left(exp) IN
      IF isOpX("NEG", a) THEN nnf(left(a))
      ELSE IF isOpX("AND", a)
        THEN Node("OR", [i \in DOMAIN a.args |-> nnf(mkNeg(a.args[i]))])
      ELSE IF isOpX("OR", a)
        THEN Node("AND", [i \in DOMAIN a.args |-> nnf(mkNeg(a.args[i]))])
      ELSE exp
  ELSE IF exp.op \in {"AND", "OR"}
    THEN Node(exp.op, [i \in DOMAIN exp.args |-> nnf(exp.args[i])])
  ELSE exp

(***************************************************************************)
(* BA: the skeleton extraction.                                            *)
(***************************************************************************)
\* a test that does not know the constant false
is_pos_bool_lit_NoFalse(e) == isOpX("TRUE", e) \/ isBoolConst(e)
is_pos_bool_lit(e) == isOpX("TRUE", e) \/ isOpX("FALSE", e) \/ isBoolConst(e)
is_neg_bool_lit(e) == isOpX("NEG", e) /\ is_pos_bool_lit(left(e))
\* a test that takes every expression for a Boolean literal
is_bool_lit_Any(e) == TRUE
is_bool_lit(e) == is_pos_bool_lit(e) \/ is_neg_bool_lit(e)

\* what BA puts in the place of everything it does not keep
\* the skeleton with non-Boolean atoms replaced by false instead
BAChangeTo_False == falseE
BAChangeTo == trueE

\* dagVisit with BA::operator() (pre: exp is in NNF)
RECURSIVE BA(_)
BA(exp) ==
  IF is_pos_bool_lit(exp) THEN exp
  ELSE IF isOpX("NEG", exp) THEN
    (IF is_pos_bool_lit(left(exp)) THEN exp ELSE BAChangeTo)
  ELSE IF isOpX("AND", exp) \/ isOpX("OR", exp) THEN
    Node(exp.op, [i \in DOMAIN exp.args |-> BA(exp.args[i])])
  ELSE IF isOpX("EQ", exp) /\ is_bool_lit(left(exp)) /\ is_bool_lit(right(exp))
    THEN exp
  ELSE BAChangeTo

\* bool_abstraction(Expr)
bool_abstraction1(exp) == BA(nnf(pre_nnf(exp)))

\* std::remove_if + erase: drop the clauses that are literally `true`
RECURSIVE remove_true(_)
remove_true(s) ==
  IF Len(s) = 0 THEN <<>>
  ELSE IF isOpX("TRUE", Head(s)) THEN remove_true(Tail(s))
  ELSE <<Head(s)>> \o remove_true(Tail(s))

\* bool_abstraction(ExprVector& side, ExprVector& abs_side), abs_side empty
bool_abstraction(side) ==
  remove_true([i \in DOMAIN side |-> bool_abstraction1(side[i])])

\* a checked build aborts in bool_abstraction on this sequence
bool_abstraction_aborts(side) ==
  \E i \in DOMAIN side : pre_nnf_asserts(side[i])

(***************************************************************************)
(* The SMT solver (ufo::ZSolver): the sequence of asserted expressions.    *)
(* A set of expressions is satisfiable iff some assignment of its Boolean  *)
(* constants and integer variables makes all of them true.                 *)
(***************************************************************************)
RECURSIVE ConstsOf(_)
ConstsOf(e) ==
  IF isBoolConst(e) THEN {e}
  ELSE UNION {ConstsOf(e.args[i]) : i \in DOMAIN e.args}

Range(f) == {f[i] : i \in DOMAIN f}

\* a reset that leaves the assertions in the solver
solver_reset_Keeps(asserted) == asserted
\* ZSolver::reset
solver_reset(asserted) == <<>>
\* ZSolver::assertExpr on every element of es, in order
assertExprs(asserted, es) == asserted \o es

ConstsOfSet(S) == UNION {ConstsOf(e) : e \in S}

IsSat(S) ==
  \E M \in SUBSET ConstsOfSet(S) : \E th \in Theories :
    \A e \in S : Val(e, M, th)

\* the integer variables of an expression
RECURSIVE IntVarsOf(_)
IntVarsOf(e) ==
  IF isOpX("IVAR", e) THEN {e.name}
  ELSE UNION {IntVarsOf(e.args[i]) : i \in DOMAIN e.args}

(***************************************************************************)
(* The clauses handed to the minimal-unsat-core procedures.  A clause is   *)
(* an Expr handle; the procedures only copy and compare handles and hand   *)
(* them to the solver, so a list holds the handles' names.                 *)
(***************************************************************************)
MucExpr ==
  [p |-> boolConst("p"),
   np |-> mkNeg(boolConst("p")),
   pq |-> mkOr(mkNeg(boolConst("p")), boolConst("q")),
   nq |-> mkNeg(boolConst("q")),
   ff |-> falseE,
   r |-> boolConst("r")]
MucNames == DOMAIN MucExpr

\* the solver's verdict on every set of clauses
MucSatTable == [S \in SUBSET MucNames |-> IsSat({MucExpr[n] : n \in S})]
MucIsSat(S) == MucSatTable[S]

\* ZSolver::solve of a solver that decides every query
MucSolve(asserted) == IF MucIsSat(Range(asserted)) THEN "SAT" ELSE "UNSAT"

(***************************************************************************)
(* naive_muc                                                               *)
(***************************************************************************)
\* naive_muc::check / binary_search_muc::check_with_assumptions:
\* reset, assert the assumptions, assert the range, count, solve.
\* st = [asserted, calls, queries] is the solver's content,
\* m_num_solver_calls and the record of the calls of solve so far.
check(rng, assumptions, st) ==
  LET asserted ==
        assertExprs(assertExprs(solver_reset(st.asserted), assumptions), rng)
  IN [res |-> MucSolve(asserted),
      st |-> [asserted |-> asserted, calls |-> st.calls + 1,
              queries |-> Append(st.queries,
                            [asserted |-> asserted, assumptions |-> assumptions,
                             rng |-> rng])]]

\* the loop of naive_muc::run over `out`, i counted from 1
RECURSIVE naive_loop(_, _, _, _)
naive_loop(out, i, assumptions, st) ==
  IF ~(i <= Len(out)) THEN [out |-> out, st |-> st]
  ELSE
    LET saved == out[i]
        moved == [out EXCEPT ![i] = out[Len(out)]]
        c == check(SubSeq(moved, 1, Len(moved) - 1), assumptions, st)
    IN IF c.res = "SAT"
         THEN naive_loop([moved EXCEPT ![i] = saved], i + 1, assumptions, c.st)
         ELSE naive_loop(SubSeq(moved, 1, Len(moved) - 1), i, assumptions, c.st)

\* a run that hands back f whole
naive_run_unminimized(f, assumptions, out, st) == [out |-> out \o f, st |-> st]

\* naive_muc::run(f, assumptions, out); the assert's check runs in a checked build
naive_run(f, assumptions, out, st) ==
  LET st0 == IF ndebug THEN st ELSE check(f, assumptions, st).st
  IN naive_loop(out \o f, 1, assumptions, st0)

(***************************************************************************)
(* binary_search_muc                                                       *)
(***************************************************************************)
threshold == 10

RECURSIVE run_with_assumptions(_, _, _, _)
\* a split that minimizes the second half without assuming the core of the first
run_with_assumptions_forgetful(f, assumptions, core, st) ==
  LET size == Len(f) IN
  IF size <= threshold THEN
    IF size = 0 THEN [out |-> core, st |-> st]
    ELSE IF size = 1 THEN [out |-> core \o f, st |-> st]
    ELSE LET r == naive_run(f, assumptions, <<>>, st)
         IN [out |-> core \o r.out, st |-> r.st]
  ELSE
    LET A == SubSeq(f, 1, size \div 2)
        B == SubSeq(f, (size \div 2) + 1, size)
        resA == check(A, assumptions, st)
    IN
    IF resA.res = "UNSAT" THEN run_with_assumptions(A, assumptions, core, resA.st)
    ELSE
      LET resB == check(B, assumptions, resA.st) IN
      IF resB.res = "UNSAT" THEN run_with_assumptions(B, assumptions, core, resB.st)
      ELSE
        LET r1 == run_with_assumptions(A, assumptions \o B, core, resB.st)
        IN run_with_assumptions(B, assumptions, r1.out, r1.st)

run_with_assumptions(f, assumptions, core, st) ==
  LET st0 == IF ndebug THEN st ELSE check(f, assumptions, st).st
      size == Len(f)
  IN
  IF size <= threshold THEN
    IF size = 0 THEN [out |-> core, st |-> st0]
    ELSE IF size = 1 THEN [out |-> core \o f, st |-> st0]
    ELSE LET r == naive_run(f, assumptions, <<>>, st0)
         IN [out |-> core \o r.out, st |-> r.st]
  ELSE
    LET A == SubSeq(f, 1, size \div 2)
        B == SubSeq(f, (size \div 2) + 1, size)
        resA == check(A, assumptions, st0)
    IN
    IF resA.res = "UNSAT" THEN run_with_assumptions(A, assumptions, core, resA.st)
    ELSE
      LET resB == check(B, assumptions, resA.st) IN
      IF resB.res = "UNSAT" THEN run_with_assumptions(B, assumptions, core, resB.st)
      ELSE
        \* minimize A assuming B, then B assuming the core so far
        LET r1 == run_with_assumptions(A, assumptions \o B, core, resB.st)
        IN run_with_assumptions(B, assumptions \o r1.out, r1.out, r1.st)

\* binary_search_muc::run(f, out), out empty
binary_search_run(f, st) == run_with_assumptions(f, <<>>, <<>>, st)

(***************************************************************************)
(* SpecMuc: the two procedures applied to a bounded family of inputs.      *)
(***************************************************************************)
\* the clauses that can take part in a core: {p, pq, nq} is a core of three,
\* {p, np} a core of two, {ff} a core of one
MucHot == {"p", "np", "pq", "nq", "ff"}
\* a clause in no core
MucFiller == "r"
\* the number of hot clauses of the assumptions and the list together
MaxHot == 3
\* the fillers before a hot clause: none, or enough to pass the threshold
MucGaps == {0, threshold + 1}

Fill(n) == [i \in 1..n |-> MucFiller]

RECURSIVE MucLists(_)
MucLists(h) ==
  IF h = 0 THEN {<<>>}
  ELSE {Fill(g) \o <<c>> \o t : <<g, c, t>> \in MucGaps \X MucHot \X MucLists(h - 1)}

MucInputs(s) == UNION {MucLists(h) : h \in 1..(MaxHot - Len(s))}
MucAssumptions == {<<>>, <<"p">>, <<"ff">>}

\* what an earlier use left asserted in the solver handed to the constructor
MucLeftovers == {<<>>, <<MucFiller>>}

MucInit ==
  /\ muc_assumptions \in MucAssumptions
  /\ muc_f \in MucInputs(muc_assumptions)
  /\ ~MucIsSat(Range(muc_assumptions \o muc_f))
  /\ muc_out = <<>>
  /\ muc_solver \in MucLeftovers
  /\ muc_calls = 0
  /\ muc_queries = <<>>
  /\ muc_pc = "input"

\* naive_muc::run(f, assumptions, out) on a fresh naive_muc
NaiveRun ==
  /\ muc_pc = "input"
  /\ LET r == naive_run(muc_f, muc_assumptions, <<>>,
                        [asserted |-> muc_solver, calls |-> 0, queries |-> <<>>])
     IN /\ muc_out' = r.out
        /\ muc_solver' = r.st.asserted
        /\ muc_calls' = r.st.calls
        /\ muc_queries' = r.st.queries
  /\ muc_pc' = "naive"
  /\ UNCHANGED <<muc_f, muc_assumptions>>

\* binary_search_muc::run(f, out) on a fresh binary_search_muc
BinarySearchRun ==
  /\ muc_pc = "input"
  /\ muc_assumptions = <<>>
  /\ LET r == binary_search_run(muc_f, [asserted |-> muc_solver, calls |-> 0,
                                       queries |-> <<>>])
     IN /\ muc_out' = r.out
        /\ muc_solver' = r.st.asserted
        /\ muc_calls' = r.st.calls
        /\ muc_queries' = r.st.queries
  /\ muc_pc' = "binary"
  /\ UNCHANGED <<muc_f, muc_assumptions>>


(***************************************************************************)
(* SpecBA: bool_abstraction applied to a bounded family of sequences.      *)
(***************************************************************************)
\* the atoms of the family: Boolean literals and theory atoms over x
BaBoolLeaves == {trueE, falseE, boolConst("p"), boolConst("q")}
BaTheoryAtoms == {mkEq(intVar("x"), intNum("1")), mkEq(intVar("x"), intNum("2"))}
BaLevel0 == BaBoolLeaves \cup BaTheoryAtoms
\* the operands combined with a nested formula
BaSmall == {boolConst("p"), mkEq(intVar("x"), intNum("1"))}

BaUnary(S) == {mkNeg(a) : a \in S}
BaBinary(S, T) ==
  UNION {{mkAnd(a, b), mkOr(a, b), mkImpl(a, b), mkIff(a, b), mkXor(a, b), mkEq(a, b)}
         : <<a, b>> \in S \X T}
BaTernary(S, T, U) == {mkIte(c, a, b) : <<c, a, b>> \in S \X T \X U}

BaLevel1 ==
  BaLevel0 \cup BaUnary(BaLevel0) \cup BaBinary(BaLevel0, BaLevel0)
    \cup BaTernary(BaLevel0, BaSmall, BaSmall)
BaLevel2 ==
  BaLevel1 \cup BaUnary(BaLevel1) \cup BaBinary(BaLevel1, BaSmall)
    \cup BaBinary(BaSmall, BaLevel1) \cup BaTernary(BaSmall, BaLevel1, BaSmall)
    \cup BaUnary(BaUnary(BaLevel1))

\* the longest sequence with more than one clause
MaxSideLen == 2
BaSides ==
  {<<e>> : e \in BaLevel2}
    \cup UNION {[1..n -> BaLevel0 \cup BaUnary(BaSmall)] : n \in 2..MaxSideLen}

BaInit ==
  /\ ba_side \in BaSides
  /\ ba_abs = <<>>
  /\ ba_again = <<>>
  /\ ba_pc = "input"

\* static void bool_abstraction(ExprVector& side, ExprVector& abs_side)
BoolAbstraction ==
  /\ ba_pc = "input"
  /\ IF ~ndebug /\ bool_abstraction_aborts(ba_side)
       THEN /\ ba_pc' = "aborted"
            /\ ba_abs' = ba_abs
       ELSE /\ ba_pc' = "done"
            /\ ba_abs' = bool_abstraction(ba_side)
  /\ UNCHANGED <<ba_side, ba_again, ndebug, mucVars, engVars, ceVars>>

\* static Expr bool_abstraction(Expr exp), applied to the clauses of abs_side
BoolAbstractionAgain ==
  /\ ba_pc = "done"
  /\ ba_again' = [i \in DOMAIN ba_abs |-> bool_abstraction1(ba_abs[i])]
  /\ ba_pc' = "again"
  /\ UNCHANGED <<ba_side, ba_abs, ndebug, mucVars, engVars, ceVars>>

(***************************************************************************)
(* The order of Expr handles (operator< of Expr, lessExpr).  Handles are   *)
(* ordered by an arbitrary fixed total order; the model fixes the          *)
(* structural one.                                                         *)
(***************************************************************************)
OpOrder ==
  <<"TRUE", "FALSE", "BCONST", "BTUPLE", "IVAR", "INUM", "NEG", "AND", "OR",
    "IMPL", "IFF", "XOR", "ITE", "EQ", "NONE">>
NameOrder ==
  <<"", "1", "2", "x", "y", "p", "q", "r", "bb0", "bb1", "bb2",
    "bb0_0", "bb1_0", "bb2_0">>
IndexOf(seq, v) == CHOOSE i \in DOMAIN seq : seq[i] = v

RECURSIVE ExprKey(_)
RECURSIVE KeysOf(_)
ExprKey(e) ==
  <<IndexOf(OpOrder, e.op), IndexOf(NameOrder, e.name), Len(e.args)>> \o KeysOf(e.args)
KeysOf(args) ==
  IF args = <<>> THEN <<>> ELSE ExprKey(Head(args)) \o KeysOf(Tail(args))

RECURSIVE SeqLess(_, _)
SeqLess(a, b) ==
  IF b = <<>> THEN FALSE
  ELSE IF a = <<>> THEN TRUE
  ELSE IF Head(a) # Head(b) THEN Head(a) < Head(b)
  ELSE SeqLess(Tail(a), Tail(b))

\* e1 < e2 on Expr
ExprLess(e1, e2) == SeqLess(ExprKey(e1), ExprKey(e2))

\* struct lessExpr: non-tuples before tuples, otherwise e1 < e2
lessExpr(e1, e2) ==
  IF ~isTuple(e1) /\ isTuple(e2) THEN TRUE
  ELSE IF isTuple(e1) /\ ~isTuple(e2) THEN FALSE
  ELSE ExprLess(e1, e2)

\* the elements of a set in the order of operator< (std::sort + std::unique,
\* the iteration of an ExprSet)
SortedExprs(S) ==
  [i \in 1..Cardinality(S) |->
     CHOOSE e \in S : Cardinality({y \in S : ExprLess(y, e)}) = i - 1]

\* the iteration of a std::set<Expr, lessExpr>
SortedLits(S) ==
  [i \in 1..Cardinality(S) |->
     CHOOSE e \in S : Cardinality({y \in S : lessExpr(y, e)}) = i - 1]

(***************************************************************************)
(* boost::tribool.  "SAT" is true, "UNSAT" false, "UNKNOWN" indeterminate. *)
(***************************************************************************)
Tribool == {"SAT", "UNSAT", "UNKNOWN"}
\* operator==(tribool, indeterminate_keyword_t): indeterminate if either is
TriEq(x, y) ==
  IF x = "UNKNOWN" \/ y = "UNKNOWN" THEN "UNKNOWN"
  ELSE IF x = y THEN "SAT" ELSE "UNSAT"
\* operator||(tribool, tribool)
TriOr(x, y) ==
  IF x = "SAT" \/ y = "SAT" THEN "SAT"
  ELSE IF x = "UNKNOWN" \/ y = "UNKNOWN" THEN "UNKNOWN"
  ELSE "UNSAT"
\* the conversion to bool: true only for true
TriBool(x) == x = "SAT"

(***************************************************************************)
(* The programs: precise encoding, CFG and symbolic stores.                *)
(***************************************************************************)
NoExpr == Leaf("NONE", "")
NoModel == [valid |-> FALSE, M |-> {}, th |-> <<>>]

\* the value of a block's symbol in a store that defines it
Variant == [bb0 |-> "bb0_0", bb1 |-> "bb1_0", bb2 |-> "bb2_0"]
\* sem().symb(BB)
symb(b) == boolConst(b)
\* the control predicate of block b as it occurs in m_side
bp(b) == boolConst(Variant[b])
xIs(n) == mkEq(intVar("x"), intNum(n))
edge02 == tupleConst(bp("bb0"), bp("bb2"))

Diamond == {<<"bb0", "bb1">>, <<"bb0", "bb2">>, <<"bb1", "bb2">>}
DiamondSide ==
  <<bp("bb0"), bp("bb2"),
    mkImpl(bp("bb2"), mkOr(bp("bb1"), edge02)),
    mkImpl(bp("bb1"), xIs("1")),
    mkImpl(bp("bb2"), xIs("2"))>>
\* the diamond with the assignment of the PHI node on the critical edge
CriticalSide ==
  <<bp("bb0"), bp("bb2"),
    mkImpl(bp("bb2"), mkOr(bp("bb1"), edge02)),
    mkImpl(edge02, xIs("1")),
    mkImpl(bp("bb2"), xIs("2"))>>
LineSide ==
  <<bp("bb0"), mkImpl(bp("bb0"), bp("bb1")),
    mkImpl(bp("bb1"), mkAnd(xIs("1"), xIs("2")))>>

Programs ==
  << \* 1: trivially unsat
     [side |-> <<bp("bb0"), mkNeg(bp("bb0"))>>,
      blocks |-> <<"bb0">>, succs |-> {}, states |-> <<{"bb0"}>>],
     \* 2: trivially sat
     [side |-> <<trueE>>,
      blocks |-> <<"bb0">>, succs |-> {}, states |-> <<{"bb0"}>>],
     \* 3: one path bb0 -> bb1, infeasible
     [side |-> LineSide,
      blocks |-> <<"bb0", "bb1">>, succs |-> {<<"bb0", "bb1">>},
      states |-> <<{}, {"bb0", "bb1"}>>],
     \* 4: diamond with the critical edge (bb0,bb2); the path over it is feasible
     [side |-> DiamondSide,
      blocks |-> <<"bb0", "bb1", "bb2">>, succs |-> Diamond,
      states |-> <<{"bb0", "bb1", "bb2"}>>],
     \* 5: program 3 with a store that does not define bb1
     [side |-> LineSide,
      blocks |-> <<"bb0", "bb1">>, succs |-> {<<"bb0", "bb1">>},
      states |-> <<{"bb0"}>>],
     \* 6: an encoding with XOR
     [side |-> <<mkXor(bp("bb0"), bp("bb1"))>>,
      blocks |-> <<"bb0", "bb1">>, succs |-> {<<"bb0", "bb1">>},
      states |-> <<{"bb0", "bb1"}>>],
     \* 7: diamond with the critical edge (bb0,bb2); the path over it is
     \* infeasible, the path over bb1 is feasible
     [side |-> CriticalSide,
      blocks |-> <<"bb0", "bb1", "bb2">>, succs |-> Diamond,
      states |-> <<{"bb0", "bb1", "bb2"}>>],
     \* 8: a single block whose constraints carry no control predicate
     [side |-> <<xIs("1"), xIs("2")>>,
      blocks |-> <<"bb0">>, succs |-> {}, states |-> <<{"bb0"}>>] >>

cfg == Programs[vc]

\* seahorn::succs, seahorn::preds
succs(c, b) == {e[2] : e \in {d \in c.succs : d[1] = b}}
preds(c, b) == {e[1] : e \in {d \in c.succs : d[2] = b}}

\* an edge taken for critical as soon as its source has another successor
isCriticalEdge_LeavingOnly(c, src, dst) == \E s \in succs(c, src) : s # dst

\* isCriticalEdge
isCriticalEdge(c, src, dst) ==
  LET not_only_leaving == \E s \in succs(c, src) : s # dst
      not_only_entering == \E q \in preds(c, dst) : q # src
  IN not_only_leaving /\ not_only_entering

\* SymStore::eval: the symbols the store defines are replaced by their values;
\* eval does not descend into function declarations (the name of a tuple
\* constant)
RECURSIVE store_eval(_, _)
store_eval(s, e) ==
  IF isOpX("BCONST", e) THEN (IF e.name \in s THEN boolConst(Variant[e.name]) ELSE e)
  ELSE IF isTuple(e) THEN e
  ELSE Node(e.op, [i \in DOMAIN e.args |-> store_eval(s, e.args[i])])
\* SymStore::isDefined
isDefined(s, e) == isOpX("BCONST", e) /\ e.name \in s

(***************************************************************************)
(* The external collaborators of the refiners.                             *)
(***************************************************************************)
AnyTheory == [v \in IntVars |-> 1]
\* the model makes a Boolean expression true
ModelTrue(e, M) == IntVarsOf(e) = {} /\ Val(e, M, AnyTheory)

\* the satisfying assignments of the Boolean constants of a set of assertions
BoolModels(S, U) == {M \in SUBSET U : \A e \in S : Val(e, M, AnyTheory)}
\* the models P.solve() can return
PModels(asserted) == BoolModels(Range(asserted), ConstsOfSet(Range(asserted)))

\* BmcTrace(engine, model): the blocks the model executes, in order
RECURSIVE SelectBlocks(_, _)
SelectBlocks(blocks, M) ==
  IF blocks = <<>> THEN <<>>
  ELSE IF bp(Head(blocks)) \in M
    THEN <<Head(blocks)>> \o SelectBlocks(Tail(blocks), M)
  ELSE SelectBlocks(Tail(blocks), M)
BmcTrace(c, M) == SelectBlocks(c.blocks, M)

\* get_model_implicant on one clause: the clause of an implication whose
\* gate the model makes true, a disjunction reduced to a disjunct the model
\* makes true, a conjunction split
PickDisjunct(v, M) ==
  IF isOpX("OR", v) /\ \E i \in DOMAIN v.args : ModelTrue(v.args[i], M)
  THEN v.args[CHOOSE i \in DOMAIN v.args :
                /\ ModelTrue(v.args[i], M)
                /\ \A j \in 1..(i - 1) : ~ModelTrue(v.args[j], M)]
  ELSE v
Conjuncts(v) == IF isOpX("AND", v) THEN v.args ELSE <<v>>
ImplicantOf(v, M) ==
  IF isOpX("IMPL", v) THEN
    IF ModelTrue(left(v), M)
    THEN [lits |-> Conjuncts(PickDisjunct(right(v), M)), gate |-> left(v)]
    ELSE [lits |-> <<>>, gate |-> NoExpr]
  ELSE [lits |-> Conjuncts(PickDisjunct(v, M)), gate |-> NoExpr]

\* the entries added to active_bool_map: the first gate of a literal stays
MapInsert(map, lits, gate) ==
  IF gate = NoExpr THEN map
  ELSE map \cup {<<l, gate>> : l \in {x \in Range(lits) : \A m \in map : m[1] # x}}

\* get_model_implicant(f, model, out, active_bool_map)
RECURSIVE get_model_implicant(_, _, _)
get_model_implicant(f, M, acc) ==
  IF f = <<>> THEN acc
  ELSE LET i == ImplicantOf(Head(f), M)
       IN get_model_implicant(Tail(f), M,
            [out |-> acc.out \o i.lits, map |-> MapInsert(acc.map, i.lits, i.gate)])
model_implicant(f, M) == get_model_implicant(f, M, [out |-> <<>>, map |-> {}])

\* the literals a path formula can hold, and the satisfiability of each set
\* of them
PathAtoms ==
  UNION {Range(model_implicant(Programs[i].side, M).out) :
           <<i, M>> \in {w \in (DOMAIN Programs) \X (SUBSET {bp("bb0"), bp("bb1"), bp("bb2"), edge02}) :
                          w[2] \subseteq ConstsOfSet(Range(Programs[w[1]].side))}}
PathSatTable == [S \in SUBSET PathAtoms |-> IsSat(S)]
PathIsSat(S) == PathSatTable[S]

\* ZSolver::solve: a solver may give up on any query
SolverAnswers(sat) == {"UNKNOWN"} \cup (IF sat THEN {"SAT"} ELSE {"UNSAT"})
\* ZSolver::getModel after SAT
SolverModels(asserted) ==
  LET S == Range(asserted) IN
  {[valid |-> TRUE, M |-> M, th |-> th] :
     <<M, th>> \in {w \in (SUBSET ConstsOfSet(S)) \X Theories :
                      \A e \in S : Val(e, w[1], w[2])}}

\* bmc_impl::unsat_core: some unsatisfiable subset of f
UnsatCores(f) == {C \in SUBSET Range(f) : ~PathIsSat(C)}

(***************************************************************************)
(* path_encoding_and_solve_with_ai: the relevant statements and their      *)
(* translation into active Boolean literals.                               *)
(***************************************************************************)
\* a statement: its kind, the block it lives in (the source block when it
\* lives on an edge), the edge's destination or "none", and the parent block
\* of the PHI node its left-hand side comes from or "none"
Stmt(kind, bb, dst, phi) == [kind |-> kind, bb |-> bb, dst |-> dst, phi |-> phi]

InteriorKinds ==
  {"bin_op", "int_cast", "select", "bool_bin_op", "bool_assign_cst",
   "arr_write", "arr_read", "arr_assume", "arr_assign"}
AssumeKinds == {"assume", "bool_assume"}
AssignKinds == {"assign", "bool_assign_var"}

\* the statements Crab can name on the path T: those of its blocks and of
\* the edges between consecutive blocks
StmtsOn(c, T) ==
  LET E == {e \in c.succs : \E i \in 1..(Len(T) - 1) : e = <<T[i], T[i + 1]>>} IN
  {Stmt("bin_op", b, "none", "none") : b \in Range(T)}
    \cup {Stmt("bool_assume", b, "none", "none") : b \in Range(T)}
    \cup {Stmt("assign", b, "none", "none") : b \in Range(T)}
    \cup {Stmt("havoc", b, "none", "none") : b \in Range(T)}
    \cup {Stmt("assume", e[1], e[2], "none") : e \in E}
    \cup {Stmt("assign", e[1], "none", e[2]) : e \in E}

\* an edge predicate that ignores critical edges
EdgeLit_Conjunction(c, src_BB, dst_BB) == mkAnd(symb(src_BB), symb(dst_BB))

\* the edge predicate of lines 535-540 and 577-582
EdgeLit(c, src_BB, dst_BB) ==
  IF isCriticalEdge(c, src_BB, dst_BB)
  THEN tupleConst(symb(src_BB), symb(dst_BB))
  ELSE mkAnd(symb(src_BB), symb(dst_BB))

\* the branch of the loop of lines 516-595 taken for s ends with `continue`
StmtRecognized(s) ==
  \/ s.kind \in InteriorKinds
  \/ s.kind \in AssumeKinds
  \/ s.kind \in AssignKinds /\ s.phi # "none"

\* the literals that branch inserts into active_bool_lits
StmtLits(c, s) ==
  IF s.kind \in InteriorKinds THEN {symb(s.bb)}
  ELSE IF s.kind \in AssumeKinds THEN
    (IF s.dst # "none" THEN {symb(s.bb), EdgeLit(c, s.bb, s.dst)} ELSE {symb(s.bb)})
  ELSE {symb(s.bb), EdgeLit(c, s.bb, s.phi)}

\* lines 608-627: the value of e in the first store that changes it
RECURSIVE find_in_stores(_, _, _)
find_in_stores(e, states, i) ==
  IF i > Len(states) THEN NoExpr
  ELSE
    LET s == states[i]
        v == store_eval(s, e)
    IN IF v # e THEN v
       ELSE IF isTuple(e) /\ isDefined(s, getTuple(e)[1]) /\ isDefined(s, getTuple(e)[2])
         THEN tupleConst(store_eval(s, getTuple(e)[1]), store_eval(s, getTuple(e)[2]))
       ELSE find_in_stores(e, states, i + 1)

\* lines 601-635: m_active_bool_lits filled until a literal is found in no store
RECURSIVE eval_lits(_, _, _)
eval_lits(todo, states, acc) ==
  IF todo = <<>> THEN [found |-> TRUE, lits |-> acc]
  ELSE LET v == find_in_stores(Head(todo), states, 1)
       IN IF v = NoExpr THEN [found |-> FALSE, lits |-> acc]
          ELSE eval_lits(Tail(todo), states, Append(acc, v))

\* the relevant statements Crab returns with bottom
MaxStmts == 1
StmtSeqs(S) == UNION {[1..n -> S] : n \in 0..MaxStmts}

(***************************************************************************)
(* add_blocking_clauses                                                    *)
(***************************************************************************)
\* the conjunction of the literals, not negated
BlockingClause_Unnegated(lits) == IF Len(lits) = 0 THEN falseE ELSE land(lits)

\* lines 924-930
BlockingClause(lits) == IF Len(lits) = 0 THEN falseE ELSE lneg(land(lits))

\* an insertion that never reports a duplicate
InsertIsNew_Always(b, B) == TRUE

\* res.second of m_blocking_clauses.insert(bc)
InsertIsNew(b, B) == b \notin B

\* a refinement that records the clause in B without asserting it into P
AddBlockingClauses_Unasserted(lits) ==
  /\ bc' = BlockingClause(lits)
  /\ m_smt_solver' = m_smt_solver
  /\ m_blocking_clauses' = m_blocking_clauses \cup {bc'}
  /\ pc' = "loop"
  /\ ret' = ret

\* a refinement that asserts its clause twice
AddBlockingClauses_Twice(lits) ==
  LET b == BlockingClause(lits) IN
    /\ bc' = b
    /\ m_smt_solver' = Append(Append(m_smt_solver, b), b)
    /\ m_blocking_clauses' = m_blocking_clauses \cup {b}
    /\ IF InsertIsNew(b, m_blocking_clauses)
         THEN pc' = "loop" /\ ret' = ret
         ELSE pc' = "returned" /\ ret' = "UNKNOWN"

\* add_blocking_clauses and what solve() does with its result (lines 878-885
\* and 900-905): continue the loop, or return indeterminate
AddBlockingClauses(lits) ==
  LET b == BlockingClause(lits) IN
    /\ bc' = b
    /\ m_smt_solver' = Append(m_smt_solver, b)
    /\ m_blocking_clauses' = m_blocking_clauses \cup {b}
    /\ IF InsertIsNew(b, m_blocking_clauses)
         THEN pc' = "loop" /\ ret' = ret
         ELSE pc' = "returned" /\ ret' = "UNKNOWN"

(***************************************************************************)
(* solve()                                                                 *)
(***************************************************************************)
MaxRuns == 2
MaxIters == 5

EngInit ==
  /\ vc \in DOMAIN Programs
  /\ UseCrab \in BOOLEAN
  /\ pc = "init"
  /\ m_side = <<>>
  /\ m_smt_solver = <<>>
  /\ m_aux_smt_solver = <<>>
  /\ m_blocking_clauses = {}
  /\ m_active_bool_lits = <<>>
  /\ m_result = "UNKNOWN"
  /\ m_model = NoModel
  /\ iters = 0
  /\ model = {}
  /\ ret = "none"
  /\ note = FALSE
  /\ runs = 0
  /\ p_res = "none"
  /\ q_res = "none"
  /\ q_model = NoModel
  /\ ai_res = "none"
  /\ bc = NoExpr
  /\ ai_stmts = <<>>
  /\ active_bool_lits = {}

\* lines 769-860: the encoding, the Boolean abstraction asserted into P
SolveStart ==
  /\ pc \in {"init", "returned"}
  /\ runs < MaxRuns
  /\ runs' = runs + 1
  /\ m_side' = cfg.side
  /\ IF ~ndebug /\ bool_abstraction_aborts(cfg.side)
       THEN /\ pc' = "aborted"
            /\ m_smt_solver' = <<>>
       ELSE /\ pc' = "loop"
            /\ m_smt_solver' = bool_abstraction(cfg.side)
  /\ iters' = 0
  /\ model' = {}
  /\ ret' = "none"
  /\ note' = FALSE
  /\ p_res' = "none"
  /\ q_res' = "none"
  /\ q_model' = NoModel
  /\ ai_res' = "none"
  /\ bc' = NoExpr
  /\ ai_stmts' = <<>>
  /\ active_bool_lits' = {}
  /\ UNCHANGED <<vc, UseCrab, m_aux_smt_solver, m_blocking_clauses,
                 m_active_bool_lits, m_result, m_model>>

\* line 861 answering true, lines 862-870
PSolveSat ==
  /\ pc = "loop"
  /\ iters < MaxIters
  /\ "SAT" \in SolverAnswers(PModels(m_smt_solver) # {})
  /\ \E M \in PModels(m_smt_solver) : model' = M
  /\ m_result' = "SAT"
  /\ p_res' = "SAT"
  /\ iters' = iters + 1
  /\ pc' = IF UseCrab THEN "ai" ELSE "smt"
  /\ q_res' = "none"
  /\ q_model' = NoModel
  /\ ai_res' = "none"
  /\ bc' = NoExpr
  /\ ai_stmts' = <<>>
  /\ active_bool_lits' = {}
  /\ UNCHANGED <<vc, UseCrab, m_side, m_smt_solver, m_aux_smt_solver,
                 m_blocking_clauses, m_active_bool_lits, m_model, ret, note, runs>>

\* line 861 answering false or indeterminate, lines 909-918
PSolveEnd ==
  /\ pc = "loop"
  /\ \E ans \in SolverAnswers(PModels(m_smt_solver) # {}) \ {"SAT"} :
       /\ m_result' = ans
       /\ p_res' = ans
       /\ ret' = ans
  /\ note' = (iters = 0)
  /\ pc' = "returned"
  /\ q_res' = "none"
  /\ q_model' = NoModel
  /\ ai_res' = "none"
  /\ bc' = NoExpr
  /\ ai_stmts' = <<>>
  /\ active_bool_lits' = {}
  /\ UNCHANGED <<vc, UseCrab, m_side, m_smt_solver, m_aux_smt_solver,
                 m_blocking_clauses, m_active_bool_lits, m_model, iters, model,
                 runs>>

\* the path of the current model is infeasible
PathInfeasible == ~PathIsSat(Range(model_implicant(m_side, model).out))

\* the set active_bool_lits of lines 515-587 for recognized statements
ActiveSet(c, stmts) == UNION {StmtLits(c, stmts[i]) : i \in DOMAIN stmts}

\* the statements the loop of lines 516-595 went through with `continue`
RECURSIVE RecognizedPrefix(_)
RecognizedPrefix(stmts) ==
  IF stmts = <<>> \/ ~StmtRecognized(Head(stmts)) THEN <<>>
  ELSE <<Head(stmts)>> \o RecognizedPrefix(Tail(stmts))

\* lines 872-888, path_analyze answering true
AiFeasible ==
  /\ pc = "ai"
  /\ ai_res' = "feasible"
  /\ pc' = "smt"
  /\ UNCHANGED <<vc, UseCrab, m_side, m_smt_solver, m_aux_smt_solver,
                 m_blocking_clauses, m_active_bool_lits, m_result, m_model, iters,
                 model, ret, note, runs, p_res, q_res, q_model, bc, ai_stmts,
                 active_bool_lits>>

\* lines 872-888, path_analyze answering false, and the refiner returning true
\* from line 594 (a statement it does not recognize) or from line 633 (a
\* literal no store evaluates)
AiUnprojected ==
  /\ pc = "ai"
  /\ PathInfeasible
  /\ \E stmts \in StmtSeqs(StmtsOn(cfg, BmcTrace(cfg, model))) :
       /\ ai_stmts' = stmts
       /\ active_bool_lits' = ActiveSet(cfg, RecognizedPrefix(stmts))
       /\ IF \E i \in DOMAIN stmts : ~StmtRecognized(stmts[i])
          THEN m_active_bool_lits' = m_active_bool_lits
          ELSE LET r == eval_lits(SortedLits(ActiveSet(cfg, stmts)), cfg.states, <<>>)
               IN ~r.found /\ m_active_bool_lits' = r.lits
  /\ ai_res' = "unprojected"
  /\ pc' = "smt"
  /\ UNCHANGED <<vc, UseCrab, m_side, m_smt_solver, m_aux_smt_solver,
                 m_blocking_clauses, m_result, m_model, iters,
                 model, ret, note, runs, p_res, q_res, q_model, bc>>

\* lines 872-888, path_analyze answering false, the refiner returning false
AiUnsat ==
  /\ pc = "ai"
  /\ PathInfeasible
  /\ \E stmts \in StmtSeqs(StmtsOn(cfg, BmcTrace(cfg, model))) :
       /\ \A i \in DOMAIN stmts : StmtRecognized(stmts[i])
       /\ ai_stmts' = stmts
       /\ active_bool_lits' = ActiveSet(cfg, stmts)
       /\ LET r == eval_lits(SortedLits(ActiveSet(cfg, stmts)), cfg.states, <<>>)
          IN /\ r.found
             /\ m_active_bool_lits' = r.lits
             /\ AddBlockingClauses(r.lits)
  /\ ai_res' = "unsat"
  /\ UNCHANGED <<vc, UseCrab, m_side, m_aux_smt_solver, m_result, m_model, iters,
                 model, note, runs, p_res, q_res, q_model>>

\* lines 661-675: the path formula, sorted and without duplicates
PathFormula(imp) == SortedExprs(Range(imp.out))

\* lines 725-735: the active literals of an unsat core
ActiveOfCore(core, map) ==
  SortedExprs({m[2] : m \in {n \in map : n[1] \in core}})

\* line 893: res == boost::indeterminate || res
SmtEndsSolve(res) == TriBool(TriOr(TriEq(res, "UNKNOWN"), res))

\* a refiner that never stores the model of Q
CachedModel_Never(res, qm, old) == old

\* lines 738-740
CachedModel(res, qm, old) == IF TriBool(res) THEN qm ELSE old

\* lines 891-906 with path_encoding_and_solve_with_smt, Q answering true
SmtSat ==
  /\ pc = "smt"
  /\ LET imp == model_implicant(m_side, model)
         pf == PathFormula(imp)
     IN /\ m_aux_smt_solver' = assertExprs(solver_reset(m_aux_smt_solver), pf)
        /\ "SAT" \in SolverAnswers(PathIsSat(Range(pf)))
        /\ \E qm \in SolverModels(pf) :
             /\ q_model' = qm
             /\ m_model' = CachedModel("SAT", qm, m_model)
  /\ q_res' = "SAT"
  /\ IF SmtEndsSolve("SAT")
       THEN /\ pc' = "returned"
            /\ ret' = "SAT"
            /\ UNCHANGED <<m_smt_solver, m_blocking_clauses, bc>>
       ELSE AddBlockingClauses(m_active_bool_lits)
  /\ UNCHANGED <<vc, UseCrab, m_side, m_active_bool_lits, m_result, iters,
                 model, note, runs, p_res, ai_res, ai_stmts, active_bool_lits>>

\* the same, Q answering indeterminate
SmtUnknown ==
  /\ pc = "smt"
  /\ m_aux_smt_solver' =
       assertExprs(solver_reset(m_aux_smt_solver),
                   PathFormula(model_implicant(m_side, model)))
  /\ q_res' = "UNKNOWN"
  /\ m_model' = CachedModel("UNKNOWN", NoModel, m_model)
  /\ IF SmtEndsSolve("UNKNOWN")
       THEN /\ pc' = "returned"
            /\ ret' = "UNKNOWN"
            /\ UNCHANGED <<m_smt_solver, m_blocking_clauses, bc>>
       ELSE AddBlockingClauses(m_active_bool_lits)
  /\ UNCHANGED <<vc, UseCrab, m_side, m_active_bool_lits, m_result, iters,
                 model, note, runs, p_res, q_model, ai_res, ai_stmts,
                 active_bool_lits>>

\* the same, Q answering false: the unsat core and its active literals
SmtUnsat ==
  /\ pc = "smt"
  /\ LET imp == model_implicant(m_side, model)
         pf == PathFormula(imp)
     IN /\ m_aux_smt_solver' = assertExprs(solver_reset(m_aux_smt_solver), pf)
        /\ "UNSAT" \in SolverAnswers(PathIsSat(Range(pf)))
        /\ \E lits \in {ActiveOfCore(core, imp.map) : core \in UnsatCores(pf)} :
               /\ m_active_bool_lits' = lits
               /\ IF SmtEndsSolve("UNSAT")
                    THEN /\ pc' = "returned"
                         /\ ret' = "UNSAT"
                         /\ UNCHANGED <<m_smt_solver, m_blocking_clauses, bc>>
                    ELSE AddBlockingClauses(lits)
  /\ q_res' = "UNSAT"
  /\ m_model' = CachedModel("UNSAT", NoModel, m_model)
  /\ UNCHANGED <<vc, UseCrab, m_side, m_result, iters,
                 model, note, runs, p_res, q_model, ai_res, ai_stmts,
                 active_bool_lits>>

EngIdle ==
  /\ vc = 1 /\ UseCrab = FALSE /\ pc = "idle" /\ m_side = <<>>
  /\ m_smt_solver = <<>> /\ m_aux_smt_solver = <<>> /\ m_blocking_clauses = {}
  /\ m_active_bool_lits = <<>> /\ m_result = "UNKNOWN" /\ m_model = NoModel
  /\ iters = 0 /\ model = {} /\ ret = "none" /\ note = FALSE /\ runs = 0
  /\ p_res = "none" /\ q_res = "none" /\ q_model = NoModel /\ ai_res = "none"
  /\ bc = NoExpr /\ ai_stmts = <<>> /\ active_bool_lits = {}

BaIdle == ba_side = <<>> /\ ba_abs = <<>> /\ ba_again = <<>> /\ ba_pc = "idle"
MucIdle ==
  /\ muc_f = <<>> /\ muc_assumptions = <<>> /\ muc_out = <<>>
  /\ muc_solver = <<>> /\ muc_calls = 0 /\ muc_queries = <<>> /\ muc_pc = "idle"

CeIdle ==
  /\ ce_succs = {} /\ ce_src = "bb0" /\ ce_dst = "bb0" /\ ce_res = FALSE
  /\ ce_pc = "idle"

\* isCriticalEdge applied to every pair of blocks of every CFG over CeBlocks
CeBlocks == {"bb0", "bb1", "bb2"}
InitCE ==
  /\ ce_succs \in SUBSET (CeBlocks \X CeBlocks)
  /\ ce_src \in CeBlocks
  /\ ce_dst \in CeBlocks
  /\ ce_res = FALSE
  /\ ce_pc = "input"
  /\ BaIdle /\ MucIdle /\ EngIdle /\ ndebug = TRUE
IsCriticalEdge ==
  /\ ce_pc = "input"
  /\ ce_res' = isCriticalEdge([succs |-> ce_succs], ce_src, ce_dst)
  /\ ce_pc' = "done"
  /\ UNCHANGED <<ce_succs, ce_src, ce_dst, baVars, mucVars, engVars, ndebug>>
NextCE == IsCriticalEdge
SpecCE == InitCE /\ [][NextCE]_vars

InitBA == BaInit /\ MucIdle /\ EngIdle /\ CeIdle /\ ndebug \in BOOLEAN
NextBA == BoolAbstraction \/ BoolAbstractionAgain
SpecBA == InitBA /\ [][NextBA]_vars

InitMuc == MucInit /\ BaIdle /\ EngIdle /\ CeIdle /\ ndebug \in BOOLEAN
NextMuc ==
  \/ NaiveRun /\ UNCHANGED <<baVars, engVars, ceVars, ndebug>>
  \/ BinarySearchRun /\ UNCHANGED <<baVars, engVars, ceVars, ndebug>>
SpecMuc == InitMuc /\ [][NextMuc]_vars

Init == EngInit /\ BaIdle /\ MucIdle /\ CeIdle /\ ndebug \in BOOLEAN
Next ==
  \/ SolveStart /\ UNCHANGED <<baVars, mucVars, ceVars, ndebug>>
  \/ PSolveSat /\ UNCHANGED <<baVars, mucVars, ceVars, ndebug>>
  \/ PSolveEnd /\ UNCHANGED <<baVars, mucVars, ceVars, ndebug>>
  \/ AiFeasible /\ UNCHANGED <<baVars, mucVars, ceVars, ndebug>>
  \/ AiUnprojected /\ UNCHANGED <<baVars, mucVars, ceVars, ndebug>>
  \/ AiUnsat /\ UNCHANGED <<baVars, mucVars, ceVars, ndebug>>
  \/ SmtSat /\ UNCHANGED <<baVars, mucVars, ceVars, ndebug>>
  \/ SmtUnknown /\ UNCHANGED <<baVars, mucVars, ceVars, ndebug>>
  \/ SmtUnsat /\ UNCHANGED <<baVars, mucVars, ceVars, ndebug>>
Spec == Init /\ [][Next]_vars

\* every solver and refiner call of a running solve() returns an answer:
\* solve() does not stay forever at the position of a call
Running == pc \in {"loop", "ai", "smt"}
CallReturns == Running /\ pc' \in {"loop", "ai", "smt", "returned"} \ {pc}
FairSpec == Init /\ [][Next]_vars /\ WF_pc(CallReturns)

(***************************************************************************)
(* Properties of solve()                                                   *)
(***************************************************************************)

\* C1: solve() returns SAT only in an iteration in which Q, holding exactly
\* the path implicant of the current abstract model, answered SAT, and the
\* cached precise model is the model Q produced in that iteration.
C1_SatOnlyFromQ ==
  (pc = "returned" /\ ret = "SAT") =>
    /\ q_res = "SAT"
    /\ m_aux_smt_solver = PathFormula(model_implicant(m_side, model))
    /\ q_model \in SolverModels(m_aux_smt_solver)
    /\ m_model = q_model
\* the diamond: the path over bb1 refuted, the path over the critical edge
\* answered SAT by Q in the second iteration
C1_Witness ==
  /\ pc = "returned" /\ ret = "SAT" /\ iters = 2
  /\ m_model.valid /\ edge02 \in m_model.M

\* C2: when the blocking clause built in an iteration, from the AI refiner's
\* or the SMT refiner's active set, is already in B, solve() returns UNKNOWN
\* in that iteration, without another P.solve().
C2_NonProgress ==
  [][(pc \in {"ai", "smt"} /\ bc' # NoExpr /\ bc' \in m_blocking_clauses)
       => (pc' = "returned" /\ ret' = "UNKNOWN" /\ iters' = iters /\ p_res' = p_res)]_vars
\* a second solve() whose AI refiner rebuilt a clause of the first
C2_Witness ==
  /\ pc = "returned" /\ ret = "UNKNOWN" /\ ai_res = "unsat"
  /\ bc # NoExpr /\ runs = 2

\* C3: an UNKNOWN answer of P.solve() or of Q.solve() ends solve() at once
\* with UNKNOWN; no blocking clause is built after it.
C3_UnknownEndsSolve ==
  (p_res = "UNKNOWN" \/ q_res = "UNKNOWN") =>
    (pc = "returned" /\ ret = "UNKNOWN" /\ bc = NoExpr)

\* C4: when P.solve() answers UNSAT solve() returns UNSAT, and the "trivially
\* unsat" note is emitted exactly when that UNSAT answer comes with n = 0.
C4_TriviallyUnsatNote ==
  pc = "returned" =>
    /\ p_res = "UNSAT" => ret = "UNSAT"
    /\ note <=> (p_res = "UNSAT" /\ iters = 0)

\* C5: every execution of solve() enters its loop with B empty and n = 0.
C5_FreshLoop ==
  (pc = "loop" /\ iters = 0) => m_blocking_clauses = {}

\* C6: an iteration that does not end solve() adds exactly one new element
\* to B and leaves P with a strict subset of its satisfying assignments; B
\* never loses an element.
C6_Continues == pc \in {"ai", "smt"} /\ pc' = "loop"
C6_MonotoneProgress ==
  [][/\ m_blocking_clauses \subseteq m_blocking_clauses'
     /\ C6_Continues =>
          LET U == ConstsOfSet(Range(m_smt_solver')) IN
            /\ Cardinality(m_blocking_clauses') = Cardinality(m_blocking_clauses) + 1
            /\ BoolModels(Range(m_smt_solver'), U) \subseteq BoolModels(Range(m_smt_solver), U)
            /\ BoolModels(Range(m_smt_solver'), U) # BoolModels(Range(m_smt_solver), U)]_vars
\* one iteration done, one clause in B, P still satisfiable
C6_Witness ==
  /\ pc = "loop" /\ iters = 1 /\ Cardinality(m_blocking_clauses) = 1
  /\ PModels(m_smt_solver) # {}

\* C7: solve() eventually returns, after at most 2^k iterations, k the
\* number of distinct control and edge predicates of m_side.
NumPredicates == Cardinality(ConstsOfSet(Range(m_side)))
C7_Termination ==
  /\ [](pc \in {"loop", "ai", "smt", "returned"} => iters <= 2 ^ NumPredicates)
  /\ Running ~> (pc = "returned")
\* the diamond's solve() returned after two iterations
C7_Witness ==
  /\ pc = "returned" /\ runs = 1 /\ iters = 2 /\ NumPredicates = 4

\* the list without its element at position i
Without(s, i) == SubSeq(s, 1, i - 1) \o SubSeq(s, i + 1, Len(s))

\* C is an unsatisfiable core under the assumptions S, and dropping any single
\* element of C makes it satisfiable
MinimalCore(C, S) ==
  /\ ~MucIsSat(Range(S) \cup Range(C))
  /\ \A i \in DOMAIN C : MucIsSat(Range(S) \cup Range(Without(C, i)))

\* C8: naive MUC minimality.  For every F and S with S + F unsatisfiable,
\* naive_muc::run ends with an output whose elements all come from F, that is
\* unsatisfiable with S, and from which no element can be dropped.
C8_NaiveMinimal ==
  muc_pc = "naive" =>
    /\ Range(muc_out) \subseteq Range(muc_f)
    /\ MinimalCore(muc_out, muc_assumptions)

\* the naive run dropped redundant clauses next to an assumption and kept a
\* core of two
C8_Witness ==
  /\ muc_pc = "naive"
  /\ Len(muc_assumptions) = 1
  /\ Len(muc_out) = 2
  /\ Len(muc_f) > Len(muc_out) + 1

\* the halves of a list longer than the threshold
FirstHalf(f) == SubSeq(f, 1, Len(f) \div 2)
SecondHalf(f) == SubSeq(f, (Len(f) \div 2) + 1, Len(f))

RECURSIVE HasXor(_)
HasXor(e) == isOpX("XOR", e) \/ \E i \in DOMAIN e.args : HasXor(e.args[i])

BaAssignments == SUBSET {boolConst("p"), boolConst("q")}

\* C10: abstraction soundness.  For every XOR-free m_side, every assignment
\* that satisfies all clauses of m_side satisfies, restricted to its Boolean
\* constants (the theory part replaced by any other), every clause of the
\* abs_side that bool_abstraction produced.
C10_AbstractionSound ==
  (ba_pc = "done" /\ \A i \in DOMAIN ba_side : ~HasXor(ba_side[i])) =>
    \A M \in BaAssignments : \A th \in Theories :
      SatSeq(ba_side, M, th) => \A th2 \in Theories : SatSeq(ba_abs, M, th2)

\* a satisfiable sequence with an implication over a theory atom was abstracted
\* to a non-empty abs_side
C10_Witness ==
  /\ ba_pc = "done"
  /\ ba_side = <<mkImpl(boolConst("p"), mkEq(intVar("x"), intNum("1")))>>
  /\ ba_abs = <<mkOr(mkNeg(boolConst("p")), trueE)>>

\* the expression is built only from Boolean literals, AND, OR and equalities
\* between Boolean literals
SkeletonLeafOps == {"TRUE", "FALSE", "BCONST", "BTUPLE"}
IsSkeletonLit(e) ==
  \/ e.op \in SkeletonLeafOps
  \/ e.op = "NEG" /\ e.args[1].op \in SkeletonLeafOps
RECURSIVE IsSkeleton(_)
IsSkeleton(e) ==
  \/ IsSkeletonLit(e)
  \/ e.op = "EQ" /\ IsSkeletonLit(e.args[1]) /\ IsSkeletonLit(e.args[2])
  \/ (isOpX("AND", e) \/ isOpX("OR", e)) /\ \A i \in DOMAIN e.args : IsSkeleton(e.args[i])

\* C11: every clause of the abs_side that bool_abstraction returns is built
\* only from Boolean literals, AND, OR and equalities between Boolean
\* literals; everything else of the NNF input has become true.
C11_SkeletonOnly ==
  ba_pc = "done" => \A i \in DOMAIN ba_abs : IsSkeleton(ba_abs[i])

\* a disjunction of a Boolean constant and a theory atom kept its shape, the
\* atom replaced by true
C11_Witness ==
  /\ ba_pc = "done"
  /\ ba_side = <<mkOr(boolConst("p"), mkEq(intVar("x"), intNum("1")))>>
  /\ ba_abs = <<mkOr(boolConst("p"), trueE)>>

\* C12: when a Boolean node of a clause of m_side is an XOR, the Boolean
\* abstraction aborts: solve() asserts nothing into P and never enters its
\* loop.
C12_XorAborts ==
  (runs > 0 /\ \E i \in DOMAIN m_side : pre_nnf_asserts(m_side[i])) =>
    (pc = "aborted" /\ m_smt_solver = <<>>)

\* s can be obtained from t by deleting elements
RECURSIVE IsSubseq(_, _)
IsSubseq(s, t) ==
  IF s = <<>> THEN TRUE
  ELSE IF t = <<>> THEN FALSE
  ELSE IF Head(s) = Head(t) /\ IsSubseq(Tail(s), Tail(t)) THEN TRUE
  ELSE IsSubseq(s, Tail(t))

\* C13: the clauses that survive in the core of a MUC run, naive or binary
\* search, appear in the order in which they appear in the input list F.
C13_OrderPreserved ==
  muc_pc \in {"naive", "binary"} => IsSubseq(muc_out, muc_f)

\* C14: isCriticalEdge(src, dst) is true exactly when src has a successor
\* other than dst and dst has a predecessor other than src.
C14_CriticalEdge ==
  ce_pc = "done" =>
    (ce_res <=>
       /\ \E e \in ce_succs : e[1] = ce_src /\ e[2] # ce_dst
       /\ \E e \in ce_succs : e[2] = ce_dst /\ e[1] # ce_src)

\* the diamond's edge bb0 -> bb2 was found critical
C14_Witness ==
  /\ ce_pc = "done" /\ ce_res
  /\ ce_succs = {<<"bb0", "bb1">>, <<"bb0", "bb2">>, <<"bb1", "bb2">>}
  /\ ce_src = "bb0" /\ ce_dst = "bb2"

\* C15: bool_abstraction is idempotent on formulas without XOR, and Boolean
\* literals are its fixed points.
C15_Idempotent ==
  /\ (ba_pc = "again" /\ \A i \in DOMAIN ba_side : ~HasXor(ba_side[i]))
       => ba_again = ba_abs
  /\ (ba_pc \in {"done", "again"} /\ Len(ba_side) = 1 /\ IsSkeletonLit(ba_side[1])
        /\ ba_side[1].op # "TRUE")
       => ba_abs = ba_side

\* the abstraction of an implication over a theory atom was abstracted again
C15_Witness ==
  /\ ba_pc = "again"
  /\ ba_side = <<mkImpl(boolConst("p"), mkEq(intVar("x"), intNum("1")))>>
  /\ ba_again = <<mkOr(mkNeg(boolConst("p")), trueE)>>


\* C16: an assign or bool_assign_var statement whose left-hand side does not
\* come from a PHI node is handled like an interior statement: bp(BB) of its
\* block enters the active set and the refiner goes on to the projection.
IsNonPhiAssign(s) == s.kind \in AssignKinds /\ s.phi = "none"
C16_NonPhiAssignInterior ==
  \A i \in DOMAIN ai_stmts :
    IsNonPhiAssign(ai_stmts[i]) =>
      /\ symb(ai_stmts[i].bb) \in active_bool_lits
      /\ ai_res = "unsat"


\* C17: for a relevant assume on an edge (src,dst) and for an assignment that
\* comes from a PHI node of dst with incoming block src, the active set holds
\* the predicate of src and the edge predicate: the tuple predicate exactly
\* when the edge is critical, the conjunction of the two block predicates
\* otherwise.  For a critical edge neither the predicate of dst nor the
\* conjunction is added, and the blocking clause built from the edge leaves
\* every abstract model that runs through src and dst along other edges.
OnEdge(s) ==
  \/ s.kind \in AssumeKinds /\ s.dst # "none"
  \/ s.kind \in AssignKinds /\ s.phi # "none"
EdgeEnd(s) == IF s.kind \in AssumeKinds THEN s.dst ELSE s.phi
EdgeIsCritical(c, src, dst) ==
  /\ \E e \in c.succs : e[1] = src /\ e[2] # dst
  /\ \E e \in c.succs : e[2] = dst /\ e[1] # src
C18_NoClauseFromUnprojected ==
  ai_res = "unprojected" =>
    /\ pc = "smt" \/ q_res # "none"
    /\ bc # NoExpr => q_res = "UNSAT"


\* C19: with the AI refiner enabled the SMT refiner runs in an iteration
\* exactly when the AI refiner reported the path feasible, and the blocking
\* clause of an iteration comes from a refiner that reported UNSAT in that
\* iteration (the AI refiner on bottom, otherwise the SMT refiner).
C19_ClauseOfThisIteration ==
  UseCrab =>
    /\ q_res # "none" => ai_res \in {"feasible", "unprojected"}
    /\ ai_res \in {"feasible", "unprojected"} => (pc = "smt" \/ q_res # "none")
    /\ bc # NoExpr => (ai_res = "unsat" \/ q_res = "UNSAT")


\* C20: when a refiner reports UNSAT with an empty active set the blocking
\* clause is the constant false, it is asserted into P and inserted into B,
\* and the loop goes on to the next P.solve(); that call, when it decides,
\* answers UNSAT and solve() returns UNSAT.
RefinerUnsatEmpty ==
  /\ ai_res = "unsat" \/ q_res = "UNSAT"
  /\ m_active_bool_lits = <<>>
  /\ bc # NoExpr
C20_FalseStep ==
  (RefinerUnsatEmpty /\ pc = "loop" /\ p_res' # p_res /\ p_res' # "UNKNOWN")
    => (p_res' = "UNSAT" /\ ret' = "UNSAT" /\ pc' = "returned")
C20_FalseEndsUnsat ==
  /\ [](RefinerUnsatEmpty =>
          /\ bc = falseE
          /\ falseE \in Range(m_smt_solver)
          /\ falseE \in m_blocking_clauses
          /\ pc = "loop")
  /\ [][C20_FalseStep]_vars


\* C21: at every P.solve() of the main loop the formulas asserted in P are
\* exactly the clauses of abs_side and the elements of B.
C21_PIsAbsAndB ==
  pc = "loop" =>
    Range(m_smt_solver) = Range(bool_abstraction(m_side)) \cup m_blocking_clauses


C23_Step ==
  \* solve() starts: P holds the abstraction only
  /\ (pc \in {"init", "returned"} /\ pc' = "loop")
       => m_smt_solver' = bool_abstraction(m_side')
  \* P.solve() and the AI refiner handing over to the SMT refiner assert nothing
  /\ (pc = "loop" \/ (pc = "ai" /\ pc' = "smt")) => m_smt_solver' = m_smt_solver
  \* back at P.solve(): one clause more, the one built after the SAT answer
  /\ (pc \in {"ai", "smt"} /\ pc' = "loop")
       => /\ p_res = "SAT"
          /\ m_smt_solver' = Append(m_smt_solver, bc')
C23_OneClauseBetweenSolves ==
  /\ [](pc = "loop" => Len(m_smt_solver) = Len(bool_abstraction(m_side)) + iters)
  /\ [][C23_Step]_vars

\* the third P.solve() of a run is about to start: two clauses were asserted
C23_Witness ==
  /\ pc = "loop" /\ runs = 1 /\ iters = 2
  /\ Len(m_smt_solver) = Len(bool_abstraction(m_side)) + 2
  /\ m_smt_solver[Len(m_smt_solver)] = bc
  /\ m_smt_solver[Len(m_smt_solver) - 1] # bc


\* C24: whenever solve() has returned, the stored m_result is the result it
\* returned.
C24_ResultStored == pc = "returned" => m_result = ret


\* C25: if every active set A handed to add_blocking_clauses is refuted by
\* m_side (m_side entails the negation of its conjunction), then at every
\* P.solve() every formula asserted in P is entailed by m_side, and solve()
\* returns UNSAT only for an unsatisfiable m_side; the empty active set, whose
\* clause is false, is included.
Entails(S, e) == ~IsSat(S \cup {mkNeg(e)})
AllEntailed(side, asserted) ==
  \A i \in DOMAIN asserted : Entails(Range(side), asserted[i])
SoundActiveSet(side, A) == ~IsSat(Range(side) \cup Range(A))
C25_Step ==
  (/\ pc \in {"ai", "smt"}
   /\ m_smt_solver' # m_smt_solver
   /\ SoundActiveSet(m_side, m_active_bool_lits')
   /\ AllEntailed(m_side, m_smt_solver))
    => AllEntailed(m_side, m_smt_solver')
C25_SoundRefinement ==
  /\ []((pc = "loop" /\ iters = 0) => AllEntailed(m_side, m_smt_solver))
  /\ [][C25_Step]_vars
  /\ []((pc = "returned" /\ ret = "UNSAT" /\ AllEntailed(m_side, m_smt_solver))
          => ~IsSat(Range(m_side)))

\* a satisfiable program whose infeasible path was blocked from a sound
\* active set: P still follows from m_side at the next P.solve()
C25_Witness ==
  /\ pc = "loop" /\ iters = 1 /\ vc = 7
  /\ IsSat(Range(m_side))
  /\ m_active_bool_lits # <<>>
  /\ SoundActiveSet(m_side, m_active_bool_lits)
  /\ bc = BlockingClause(m_active_bool_lits)
  /\ m_smt_solver[Len(m_smt_solver)] = bc
  /\ AllEntailed(m_side, m_smt_solver)

====
